---------------------------- MODULE Spec2Model ----------------------------
(***************************************************************************)
(* Xenium modchip device model (hw/xbox/modchip_xenium.c).                 *)
(*                                                                         *)
(* The device is a XeniumState structure driven by three entry points:     *)
(* the two I/O port handlers xenium_io_write / xenium_io_read and the      *)
(* flash address translation xenium_translate_flash_address, which calls   *)
(* xenium_mask_flash_address.  A failed assert() aborts the process.       *)
(***************************************************************************)
EXTENDS Integers, Sequences, FiniteSets, TLC

(***************************************************************************)
(* Program constants.                                                      *)
(***************************************************************************)
XENIUM_REGISTER0 == 0
XENIUM_REGISTER1 == 1

\* One-byte accesses only (.valid.max_access_size = 1): a written value is a byte.
MaxByte == 255

(***************************************************************************)
(* Bounds of the model.                                                    *)
(***************************************************************************)
\* Register indexes handed to the handlers are 0..MaxReg.
MaxReg == 2

\* Sampled flash addresses besides 0x000000 and 0xFFFFFF.
MaxAddr == 1

(***************************************************************************)
(* Machine arithmetic.                                                     *)
(***************************************************************************)
Pow2(n) == 2 ^ n

\* a << n; the shifts of the program are 1 << 18..20 and bool << 4..7, far
\* below the width of uint32_t, so no bit is shifted out.
Shl(a, n) == a * Pow2(n)

RECURSIVE BitAnd(_, _)
BitAnd(a, b) ==
    IF a = 0 \/ b = 0 THEN 0
    ELSE (IF a % 2 = 1 /\ b % 2 = 1 THEN 1 ELSE 0) + 2 * BitAnd(a \div 2, b \div 2)

\* a & ~b, bit by bit (the complement of b is taken at the width of a)
RECURSIVE BitAndNot(_, _)
BitAndNot(a, b) ==
    IF a = 0 THEN 0
    ELSE (IF a % 2 = 1 /\ b % 2 = 0 THEN 1 ELSE 0) + 2 * BitAndNot(a \div 2, b \div 2)

RECURSIVE BitOr(_, _)
BitOr(a, b) ==
    IF a = 0 THEN b
    ELSE IF b = 0 THEN a
    ELSE (IF a % 2 = 1 \/ b % 2 = 1 THEN 1 ELSE 0) + 2 * BitOr(a \div 2, b \div 2)

\* conversion of an integer to bool, and of a bool to int
ToBool(x) == x # 0
ToInt(b) == IF b THEN 1 ELSE 0

(***************************************************************************)
(* State.                                                                  *)
(***************************************************************************)
VARIABLES
    s,          \* the XeniumState: sck, cs, mosi, miso_1, miso_4, led, bank_control, recovery
    aborted,    \* TRUE once an assert() has failed
    op,         \* the last call made on the device and its outcome
    last_w1     \* value of the most recent successful register-1 write, NoValue if none

vars == <<s, aborted, op, last_w1>>

NoValue == -1
NoMask == <<>>

\* Sampled 24-bit flash addresses: all bits clear, all bits set, and values
\* with bits on both sides of bits 20..18.
Addresses == {0, 16777215} \cup {(2 * k + 1) * Pow2(18) + k * Pow2(21) + k : k \in 1..MaxAddr}

Registers == 0..MaxReg

\* Sampled written bytes: every low nibble under a zero high nibble, and the
\* high nibbles with one of bits 4..7 set, with bits 4..6 set and with all
\* set, over low nibbles 5 and 11.
HighNibbles == {1, 2, 4, 8, 7, 15}
Bytes == {v \in 0..MaxByte : v \div 16 = 0 \/ (v \div 16 \in HighNibbles /\ v % 16 \in {5, 11})}

(***************************************************************************)
(* xenium_mask_flash_address                                               *)
(***************************************************************************)
\* One iteration of the loop body: the switch on mask[i].
MaskStep(translation, c, i) ==
    LET bitval == Shl(1, 20 - i)
    IN  CASE c = "1" -> [fatal |-> FALSE, translation |-> BitOr(translation, bitval)]
          [] c = "0" -> [fatal |-> FALSE, translation |-> BitAndNot(translation, bitval)]
          [] c = "X" -> [fatal |-> FALSE, translation |-> translation]
          [] OTHER   -> [fatal |-> TRUE,  translation |-> translation]

\* for (int i = 0; i < 3; i++) { ... }
RECURSIVE MaskLoop(_, _, _)
MaskLoop(translation, mask, i) ==
    IF i >= 3 THEN [fatal |-> FALSE, translation |-> translation]
    ELSE LET r == MaskStep(translation, mask[i + 1], i)
         IN  IF r.fatal THEN r ELSE MaskLoop(r.translation, mask, i + 1)

\* The function ends without a return statement, and its caller uses the
\* value: the value is indeterminate.  The outcomes kept here are the
\* computed local, the untouched argument, and what the loop's last
\* iteration leaves behind (the character 'X' it switched on).
MaskReturnValues(address, mask, translation) ==
    {translation, address, 88}

xenium_mask_flash_address(address, mask) ==
    LET r == MaskLoop(address, mask, 0)
    IN  [fatal |-> r.fatal,
         mask |-> mask,
         translation |-> r.translation,
         returns |-> IF r.fatal THEN {} ELSE MaskReturnValues(address, mask, r.translation)]

(***************************************************************************)
(* xenium_translate_flash_address                                          *)
(***************************************************************************)
TranslateFatal ==
    [fatal |-> TRUE, mask |-> NoMask, translation |-> NoValue, returns |-> {}]

\* the switch over the bank codes 0..10
BankCase(address, bank_control) ==
    CASE bank_control = 0  -> xenium_mask_flash_address(address, <<"X", "X", "X">>)
      [] bank_control = 1  -> xenium_mask_flash_address(address, <<"1", "1", "0">>)
      [] bank_control = 2  -> xenium_mask_flash_address(address, <<"1", "0", "X">>)
      [] bank_control = 3  -> xenium_mask_flash_address(address, <<"0", "0", "0">>)
      [] bank_control = 4  -> xenium_mask_flash_address(address, <<"0", "0", "1">>)
      [] bank_control = 5  -> xenium_mask_flash_address(address, <<"0", "1", "0">>)
      [] bank_control = 6  -> xenium_mask_flash_address(address, <<"0", "1", "1">>)
      [] bank_control = 7  -> xenium_mask_flash_address(address, <<"0", "0", "X">>)
      [] bank_control = 8  -> xenium_mask_flash_address(address, <<"0", "1", "X">>)
      [] bank_control = 9  -> xenium_mask_flash_address(address, <<"0", "X", "X">>)
      [] bank_control = 10 -> xenium_mask_flash_address(address, <<"1", "1", "1">>)

\* variant: an undefined bank code leaves the address as it is
xenium_translate_flash_address_default(address, bank_control) ==
    IF bank_control \in 0..10
    THEN BankCase(address, bank_control)
    ELSE [fatal |-> FALSE, mask |-> NoMask, translation |-> address, returns |-> {address}]

xenium_translate_flash_address(address, bank_control) ==
    IF bank_control \in 0..10
    THEN BankCase(address, bank_control)
    ELSE TranslateFatal

(***************************************************************************)
(* xenium_io_write                                                         *)
(***************************************************************************)
\* variant: the reserved-bit check shifts by 4 instead of 3
WriteRegister0_shift4(st, val) ==
    IF val \div Pow2(4) # 0
    THEN [fatal |-> TRUE, s |-> st]
    ELSE [fatal |-> FALSE, s |-> [st EXCEPT !.led = val % 256]]

\* variant: the value is stored in bank_control instead of led
WriteRegister0_wrong_field(st, val) ==
    IF val \div Pow2(3) # 0
    THEN [fatal |-> TRUE, s |-> st]
    ELSE [fatal |-> FALSE, s |-> [st EXCEPT !.bank_control = val % 65536]]

\* case XENIUM_REGISTER0: assert((val >> 3) == 0); s->led = val;
WriteRegister0(st, val) ==
    IF val \div Pow2(3) # 0
    THEN [fatal |-> TRUE, s |-> st]
    ELSE [fatal |-> FALSE, s |-> [st EXCEPT !.led = val % 256]]

\* variant: the stores also take the recovery flag from bit 7 of the value
StoreRegister1_recovery(st, val) ==
    [st EXCEPT !.sck = ToBool(BitAnd(val, Shl(1, 6))),
               !.cs = ToBool(BitAnd(val, Shl(1, 5))),
               !.mosi = ToBool(BitAnd(val, Shl(1, 4))),
               !.bank_control = BitAnd(val, 15),
               !.recovery = ToBool(BitAnd(val, Shl(1, 7)))]

\* variant: chip-select and data-in take each other's bit
StoreRegister1_swapped(st, val) ==
    [st EXCEPT !.sck = ToBool(BitAnd(val, Shl(1, 6))),
               !.cs = ToBool(BitAnd(val, Shl(1, 4))),
               !.mosi = ToBool(BitAnd(val, Shl(1, 5))),
               !.bank_control = BitAnd(val, 15)]

\* the four stores of case XENIUM_REGISTER1
StoreRegister1(st, val) ==
    [st EXCEPT !.sck = ToBool(BitAnd(val, Shl(1, 6))),
               !.cs = ToBool(BitAnd(val, Shl(1, 5))),
               !.mosi = ToBool(BitAnd(val, Shl(1, 4))),
               !.bank_control = BitAnd(val, 15)]

\* variant: the reserved-bit check comes after the stores
WriteRegister1_assert_last(st, val) ==
    [fatal |-> BitAnd(val, Shl(1, 7)) # 0, s |-> StoreRegister1(st, val)]

\* variant: bank_control keeps three bits of the value
WriteRegister1_mask7(st, val) ==
    IF BitAnd(val, Shl(1, 7)) # 0
    THEN [fatal |-> TRUE, s |-> st]
    ELSE [fatal |-> FALSE, s |-> [StoreRegister1(st, val) EXCEPT !.bank_control = BitAnd(val, 7)]]

\* variant: the bank code is validated when it is written
WriteRegister1_eager(st, val) ==
    IF BitAnd(val, Shl(1, 7)) # 0 \/ BitAnd(val, 15) > 10
    THEN [fatal |-> TRUE, s |-> st]
    ELSE [fatal |-> FALSE, s |-> StoreRegister1(st, val)]

\* variant: a device holding an undefined bank code refuses further writes
WriteRegister1_sticky(st, val) ==
    IF BitAnd(val, Shl(1, 7)) # 0 \/ st.bank_control > 10
    THEN [fatal |-> TRUE, s |-> st]
    ELSE [fatal |-> FALSE, s |-> StoreRegister1(st, val)]

\* case XENIUM_REGISTER1: assert((val & (1 << 7)) == 0); then the stores
WriteRegister1(st, val) ==
    IF BitAnd(val, Shl(1, 7)) # 0
    THEN [fatal |-> TRUE, s |-> st]
    ELSE [fatal |-> FALSE, s |-> StoreRegister1(st, val)]

xenium_io_write(st, addr, val) ==
    CASE addr = XENIUM_REGISTER0 -> WriteRegister0(st, val)
      [] addr = XENIUM_REGISTER1 -> WriteRegister1(st, val)
      [] OTHER -> [fatal |-> TRUE, s |-> st]

(***************************************************************************)
(* xenium_io_read                                                          *)
(***************************************************************************)
\* variant: register 0 reads back the LED bits
ReadRegister0_led(st) ==
    [fatal |-> FALSE, val |-> st.led, s |-> st]

\* case XENIUM_REGISTER0: val = 0x55
ReadRegister0(st) ==
    [fatal |-> FALSE, val |-> 85, s |-> st]

\* variant: the recovery flag is shifted to bit 6
ReadRegister1_shift6(st) ==
    [fatal |-> FALSE,
     val |-> BitOr(BitOr(BitOr(Shl(ToInt(st.recovery), 6),
                               Shl(ToInt(st.miso_1), 5)),
                         Shl(ToInt(st.miso_4), 4)),
                   st.bank_control),
     s |-> st]

\* variant: the status byte is composed in place, in bank_control
ReadRegister1_in_place(st) ==
    LET val == BitOr(BitOr(BitOr(Shl(ToInt(st.recovery), 7),
                                 Shl(ToInt(st.miso_1), 5)),
                           Shl(ToInt(st.miso_4), 4)),
                     st.bank_control)
    IN  [fatal |-> FALSE, val |-> val, s |-> [st EXCEPT !.bank_control = val]]

\* case XENIUM_REGISTER1: recovery<<7 | miso_1<<5 | miso_4<<4 | bank_control
ReadRegister1(st) ==
    [fatal |-> FALSE,
     val |-> BitOr(BitOr(BitOr(Shl(ToInt(st.recovery), 7),
                               Shl(ToInt(st.miso_1), 5)),
                         Shl(ToInt(st.miso_4), 4)),
                   st.bank_control),
     s |-> st]

\* variant: an unknown register reads as the initial val = 0
xenium_io_read_no_default(st, addr) ==
    CASE addr = XENIUM_REGISTER0 -> ReadRegister0(st)
      [] addr = XENIUM_REGISTER1 -> ReadRegister1(st)
      [] OTHER -> [fatal |-> FALSE, val |-> 0, s |-> st]

xenium_io_read(st, addr) ==
    CASE addr = XENIUM_REGISTER0 -> ReadRegister0(st)
      [] addr = XENIUM_REGISTER1 -> ReadRegister1(st)
      [] OTHER -> [fatal |-> TRUE, val |-> NoValue, s |-> st]

(***************************************************************************)
(* xenium_realize                                                          *)
(***************************************************************************)
\* variant: the default bank is the pass-through bank 0
xenium_realize_bank0(st) ==
    [st EXCEPT !.bank_control = 0, !.recovery = TRUE, !.led = 1]

\* realize assigns bank_control, recovery and led; the SPI lines are not
\* assigned and hold what the instance memory holds.
xenium_realize(st) ==
    [st EXCEPT !.bank_control = 1, !.recovery = TRUE, !.led = 1]

InstanceMemory ==
    [sck : BOOLEAN, cs : BOOLEAN, mosi : BOOLEAN, miso_1 : BOOLEAN, miso_4 : BOOLEAN,
     led : {0}, bank_control : {0}, recovery : {FALSE}]

Init ==
    /\ s \in {xenium_realize(m) : m \in InstanceMemory}
    /\ aborted = FALSE
    /\ op = [kind |-> "realize", addr |-> 0, val |-> 0, ret |-> NoValue, mask |-> NoMask]
    /\ last_w1 = NoValue

(***************************************************************************)
(* Actions: one per entry point.                                           *)
(***************************************************************************)
Write(addr, val) ==
    /\ ~aborted
    /\ LET r == xenium_io_write(s, addr, val)
       IN  /\ s' = r.s
           /\ aborted' = r.fatal
           /\ last_w1' = IF addr = XENIUM_REGISTER1 /\ ~r.fatal THEN val ELSE last_w1
    /\ op' = [kind |-> "write", addr |-> addr, val |-> val, ret |-> NoValue, mask |-> NoMask]

Read(addr) ==
    /\ ~aborted
    /\ LET r == xenium_io_read(s, addr)
       IN  /\ s' = r.s
           /\ aborted' = r.fatal
           /\ op' = [kind |-> "read", addr |-> addr, val |-> 0, ret |-> r.val, mask |-> NoMask]
    /\ UNCHANGED last_w1

\* A flash access: the flash backend translates the address under the
\* device's current bank_control (passed as a uint8_t).
Translate(address) ==
    /\ ~aborted
    /\ LET bank == s.bank_control % 256
           r == xenium_translate_flash_address(address, bank)
       IN  IF r.fatal
           THEN /\ aborted' = TRUE
                /\ op' = [kind |-> "translate", addr |-> address, val |-> bank,
                          ret |-> NoValue, mask |-> r.mask]
           ELSE /\ aborted' = FALSE
                /\ \E v \in r.returns :
                      op' = [kind |-> "translate", addr |-> address, val |-> bank,
                             ret |-> v, mask |-> r.mask]
    /\ UNCHANGED <<s, last_w1>>

Next ==
    \/ \E addr \in Registers, val \in Bytes : Write(addr, val)
    \/ \E addr \in Registers : Read(addr)
    \/ \E address \in Addresses : Translate(address)

Spec == Init /\ [][Next]_vars

(***************************************************************************)
(* vmstate_xenium: saving the device and loading it into a freshly         *)
(* attached one.                                                           *)
(***************************************************************************)
\* .fields of the descriptor: VMSTATE_END_OF_LIST() alone, no field is listed
vmstate_xenium == <<>>

\* the saved stream: the value of every listed field
vmstate_save(st) ==
    [f \in {vmstate_xenium[i] : i \in DOMAIN vmstate_xenium} |-> st[f]]

\* loading sets the listed fields and leaves the others as attach made them
vmstate_load(st, saved) ==
    [f \in DOMAIN st |-> IF f \in DOMAIN saved THEN saved[f] ELSE st[f]]

SaveRestore ==
    /\ ~aborted
    /\ \E m \in InstanceMemory :
          s' = vmstate_load(xenium_realize(m), vmstate_save(s))
    /\ aborted' = FALSE
    /\ op' = [kind |-> "restore", addr |-> 0, val |-> 0, ret |-> NoValue, mask |-> NoMask]
    /\ last_w1' = NoValue

NextMigrate ==
    \/ Next
    \/ SaveRestore

SpecMigrate == Init /\ [][NextMigrate]_vars

(***************************************************************************)
(* The bank table and the bit rewriting as the specification states them.  *)
(***************************************************************************)
\* pattern of bank code c is BankPattern[c + 1]
BankPattern ==
    << <<"X", "X", "X">>, <<"1", "1", "0">>, <<"1", "0", "X">>, <<"0", "0", "0">>,
       <<"0", "0", "1">>, <<"0", "1", "0">>, <<"0", "1", "1">>, <<"0", "0", "X">>,
       <<"0", "1", "X">>, <<"0", "X", "X">>, <<"1", "1", "1">> >>

ValidBanks == 0..10

Bit(a, n) == (a \div Pow2(n)) % 2

\* bit n of the address rewritten under a pattern: character i governs bit 20 - i
PatternBit(a, pattern, n) ==
    IF n \in 18..20 /\ pattern[21 - n] = "0" THEN 0
    ELSE IF n \in 18..20 /\ pattern[21 - n] = "1" THEN 1
    ELSE Bit(a, n)

AddressBits == 0..23

\* the bank code in force: the low nibble of the last successful register-1
\* write, the default 1 before any
BankInForce == IF last_w1 = NoValue THEN 1 ELSE last_w1 % 16

IsOp(kind) == op.kind = kind

(***************************************************************************)
(* C1: for every bank code 0..10 and every address, the translation        *)
(* returns the address with bits 20..18 rewritten by the bank's pattern    *)
(* ('0' clears, '1' sets, 'X' keeps).  The code computes this value but    *)
(* never returns it, so the statement is violated.                         *)
(***************************************************************************)
C1_TranslateReturnsMasked ==
    (IsOp("translate") /\ op.val \in ValidBanks) =>
        /\ ~aborted
        /\ op.ret \in 0..(Pow2(24) - 1)
        /\ \A n \in AddressBits :
              Bit(op.ret, n) = PatternBit(op.addr, BankPattern[op.val + 1], n)

(***************************************************************************)
(* C2: for bank codes 0..10 the translated address differs from the input  *)
(* only in bits 20..18 at '0'/'1' positions; bank 0 is the identity.       *)
(* Violated for the same reason as C1: the returned value is indeterminate.*)
(***************************************************************************)
C2_OnlyPatternBitsChange ==
    (IsOp("translate") /\ op.val \in ValidBanks /\ ~aborted) =>
        /\ \A n \in AddressBits :
              (n \notin 18..20 \/ BankPattern[op.val + 1][21 - n] = "X")
                  => Bit(op.ret, n) = Bit(op.addr, n)
        /\ op.ret \div Pow2(24) = 0
        /\ (op.val = 0 => op.ret = op.addr)

(***************************************************************************)
(* C3: a register-1 write with bit 7 clear sets bank_control to v & 0xF,   *)
(* and every translation is made under the bank code of the most recent    *)
(* successful register-1 write (code 1 before any), with that code's       *)
(* pattern: never under the code of an earlier write.                      *)
(***************************************************************************)
C3_NoStaleBank ==
    /\ (IsOp("write") /\ op.addr = 1 /\ op.val < 128) =>
          (~aborted /\ last_w1 = op.val /\ s.bank_control = op.val % 16)
    /\ IsOp("translate") =>
          /\ op.val = BankInForce
          /\ s.bank_control = BankInForce
          /\ (BankInForce \in ValidBanks =>
                 (~aborted /\ op.mask = BankPattern[BankInForce + 1]))

C3_Witness ==
    /\ IsOp("translate") /\ ~aborted
    /\ last_w1 = 9
    /\ op.val = 9
    /\ op.mask = <<"0", "X", "X">>

(***************************************************************************)
(* C4: a translation requested with a bank code in 11..15 ends in the      *)
(* fatal error, whatever the address, and yields no address.               *)
(***************************************************************************)
C4_InvalidBankFatal ==
    (IsOp("translate") /\ op.val \in 11..15) =>
        (aborted /\ op.ret = NoValue /\ op.mask = NoMask)

C4_Witness ==
    IsOp("translate") /\ op.val = 13 /\ aborted /\ op.addr = 16777215

(***************************************************************************)
(* C5: a read of register 0 returns 0x55 in every reachable state.         *)
(***************************************************************************)
C5_Reg0ReadsId ==
    (IsOp("read") /\ op.addr = 0) => (~aborted /\ op.ret = 85)

C5_Witness ==
    IsOp("read") /\ op.addr = 0 /\ op.ret = 85 /\ s.led = 6 /\ last_w1 = 43

(***************************************************************************)
(* C6: a read of register 1 returns                                        *)
(* recovery<<7 | miso_1<<5 | miso_4<<4 | bank_control, bank_control being  *)
(* the low nibble of the last successful register-1 write; bit 6 is 0;     *)
(* with bank code 5 written, recovery set and both data-out lines clear    *)
(* the read returns 0x85.                                                  *)
(***************************************************************************)
C6_Reg1ReadValue ==
    (IsOp("read") /\ op.addr = 1) =>
        /\ ~aborted
        /\ op.ret = 128 * ToInt(s.recovery) + 32 * ToInt(s.miso_1)
                      + 16 * ToInt(s.miso_4) + s.bank_control
        /\ s.bank_control = BankInForce
        /\ Bit(op.ret, 6) = 0
        /\ (last_w1 # NoValue /\ last_w1 % 16 = 5 /\ s.recovery /\ ~s.miso_1 /\ ~s.miso_4)
              => op.ret = 133

C6_Witness ==
    /\ IsOp("read") /\ op.addr = 1 /\ op.ret = 133
    /\ last_w1 = 5 /\ s.recovery /\ ~s.miso_1 /\ ~s.miso_4

(***************************************************************************)
(* C7: a register-0 write of v with bits 3..7 zero sets led to v; with any *)
(* of bits 3..7 set it ends in the fatal error and no field changes.       *)
(***************************************************************************)
C7_Reg0Write ==
    [][(~aborted /\ op'.kind = "write" /\ op'.addr = 0) =>
          IF op'.val \div 8 = 0
          THEN ~aborted' /\ s'.led = op'.val
          ELSE aborted' /\ s' = s]_vars

C7_Witness ==
    IsOp("write") /\ op.addr = 0 /\ op.val = 8 /\ aborted /\ s.led = 5

(***************************************************************************)
(* C8: a register-1 write with bit 7 set ends in the fatal error and       *)
(* leaves sck, cs, mosi and bank_control as they were.                     *)
(***************************************************************************)
C8_Reg1Bit7Rejected ==
    [][(~aborted /\ op'.kind = "write" /\ op'.addr = 1 /\ Bit(op'.val, 7) = 1) =>
          /\ aborted'
          /\ s'.sck = s.sck /\ s'.cs = s.cs /\ s'.mosi = s.mosi
          /\ s'.bank_control = s.bank_control]_vars

C8_Witness ==
    /\ IsOp("write") /\ op.addr = 1 /\ op.val = 139 /\ aborted
    /\ last_w1 = 69 /\ s.bank_control = 5 /\ s.sck /\ ~s.cs /\ ~s.mosi

(***************************************************************************)
(* C9: a read or a write of a register index other than 0 and 1 ends in    *)
(* the fatal error; the write changes no field, the read returns nothing.  *)
(***************************************************************************)
C9_UnknownRegisterFatal ==
    [][(~aborted /\ op'.kind \in {"read", "write"} /\ op'.addr \notin {0, 1}) =>
          (aborted' /\ s' = s /\ op'.ret = NoValue)]_vars

C9_Witness ==
    IsOp("read") /\ op.addr = 2 /\ aborted /\ op.ret = NoValue /\ last_w1 = 11

(***************************************************************************)
(* C10: a read of register 0 or 1 changes no field of the device, and a    *)
(* read that directly follows a read of the same register returns the      *)
(* same value.                                                             *)
(***************************************************************************)
C10_ReadsNoSideEffect ==
    [][(~aborted /\ op'.kind = "read" /\ op'.addr \in {0, 1}) =>
          /\ ~aborted'
          /\ s' = s
          /\ (IsOp("read") /\ op.addr = op'.addr) => op'.ret = op.ret]_vars

C10_Witness ==
    IsOp("read") /\ op.addr = 1 /\ ~aborted /\ s.led = 3 /\ last_w1 = 117 /\ op.ret \div 128 = 1

(***************************************************************************)
(* C11: right after attach, before any register write, bank_control = 1,   *)
(* recovery is set and led = 1; a translation made then uses pattern 110   *)
(* and a register-1 read made then has bit 7 set and bits 3..0 = 0001.     *)
(***************************************************************************)
C11_AttachDefaults ==
    [][IsOp("realize") =>
          /\ s.bank_control = 1 /\ s.recovery /\ s.led = 1
          /\ (op'.kind = "translate") =>
                (~aborted' /\ op'.val = 1 /\ op'.mask = <<"1", "1", "0">>)
          /\ (op'.kind = "read" /\ op'.addr = 1) =>
                (~aborted' /\ Bit(op'.ret, 7) = 1 /\ op'.ret % 16 = 1)]_vars

C11_Witness ==
    /\ IsOp("read") /\ op.addr = 1 /\ ~aborted
    /\ last_w1 = NoValue /\ s.led = 1
    /\ op.ret \in {129, 145, 161, 177}

(***************************************************************************)
(* C12: no register write, whatever the index and value, changes recovery, *)
(* miso_1 or miso_4; recovery stays set, so bit 7 of every register-1 read *)
(* is 1.                                                                   *)
(***************************************************************************)
C12_BusReadOnlyFields ==
    [][/\ s'.recovery = s.recovery /\ s'.recovery = TRUE
       /\ s'.miso_1 = s.miso_1
       /\ s'.miso_4 = s.miso_4
       /\ (~aborted /\ op'.kind = "read" /\ op'.addr = 1) => op'.ret \div 128 = 1]_vars

C12_Witness ==
    /\ IsOp("read") /\ op.addr = 1 /\ ~aborted /\ op.ret = 128 + 32 + 11
    /\ last_w1 = 123 /\ s.led = 4
    /\ s.recovery /\ s.miso_1 /\ ~s.miso_4

(***************************************************************************)
(* C13: the address masking is deterministic and stateless: invocations    *)
(* with the same (address, pattern) return the same value, whatever        *)
(* happened between them, and an invocation changes no device state.       *)
(* The invocation changes no state, but the value it returns is            *)
(* indeterminate (see C1), so the statement is violated.                   *)
(***************************************************************************)
C13_MaskDeterministic ==
    [][(~aborted /\ op'.kind = "translate" /\ ~aborted') =>
          /\ s' = s
          /\ xenium_mask_flash_address(op'.addr, op'.mask).returns = {op'.ret}
          /\ (IsOp("translate") /\ op.addr = op'.addr /\ op.mask = op'.mask)
                => op'.ret = op.ret]_vars

(***************************************************************************)
(* C14: saving the device through its descriptor and loading it into a     *)
(* freshly attached device gives back the led, bank_control and recovery   *)
(* it had.  The descriptor lists no field, so the loaded device has the    *)
(* attach defaults and the statement is violated.                          *)
(***************************************************************************)
C14_SaveRestoreRoundTrip ==
    [][(op'.kind = "restore" /\ ~aborted) =>
          /\ s'.led = s.led
          /\ s'.bank_control = s.bank_control
          /\ s'.recovery = s.recovery]_vars

(***************************************************************************)
(* C15: after a successful register-1 write of v, sck is bit 6 of v, cs is *)
(* bit 5 and mosi is bit 4, as booleans, and they stay so until the next   *)
(* successful register-1 write.                                            *)
(***************************************************************************)
C15_SpiLinesFollowWrite ==
    last_w1 # NoValue =>
        /\ s.sck = (Bit(last_w1, 6) = 1)
        /\ s.cs = (Bit(last_w1, 5) = 1)
        /\ s.mosi = (Bit(last_w1, 4) = 1)

C15_Witness ==
    /\ IsOp("write") /\ op.addr = 0 /\ op.val = 2 /\ ~aborted
    /\ last_w1 = 37
    /\ ~s.sck /\ s.cs /\ ~s.mosi

(***************************************************************************)
(* C16: bank validation is lazy: a register-1 write with bit 7 clear and   *)
(* low nibble 11..15 succeeds and stores the code, a register-1 read then  *)
(* reports it in bits 3..0, and the fatal error comes when a translation   *)
(* is requested under it.                                                  *)
(***************************************************************************)
C16_LazyBankValidation ==
    [][/\ (~aborted /\ op'.kind = "write" /\ op'.addr = 1 /\ Bit(op'.val, 7) = 0
             /\ op'.val % 16 \in 11..15)
            => (~aborted' /\ s'.bank_control = op'.val % 16)
       /\ (~aborted /\ s.bank_control \in 11..15 /\ op'.kind = "read" /\ op'.addr = 1)
            => (~aborted' /\ op'.ret % 16 = s.bank_control)
       /\ (~aborted /\ s.bank_control \in 11..15 /\ op'.kind = "translate")
            => aborted']_vars

C16_Witness ==
    /\ IsOp("read") /\ op.addr = 1 /\ ~aborted
    /\ s.bank_control = 13 /\ op.ret % 16 = 13

(***************************************************************************)
(* C17: a successful register-0 write changes led alone; a successful      *)
(* register-1 write changes sck, cs, mosi and bank_control alone; led <= 7 *)
(* and bank_control <= 15 in every reachable state.                        *)
(***************************************************************************)
C17_IndependentFields ==
    [][/\ (~aborted /\ op'.kind = "write" /\ op'.addr = 0 /\ ~aborted')
            => s' = [s EXCEPT !.led = s'.led]
       /\ (~aborted /\ op'.kind = "write" /\ op'.addr = 1 /\ ~aborted')
            => s' = [s EXCEPT !.sck = s'.sck, !.cs = s'.cs, !.mosi = s'.mosi,
                              !.bank_control = s'.bank_control]
       /\ s.led <= 7 /\ s'.led <= 7
       /\ s.bank_control <= 15 /\ s'.bank_control <= 15]_vars

C17_Witness ==
    /\ IsOp("write") /\ op.addr = 0 /\ op.val = 7 /\ ~aborted
    /\ s.led = 7 /\ last_w1 = 123 /\ s.bank_control = 11
    /\ s.sck /\ s.cs /\ s.mosi

(***************************************************************************)
(* C18: an undefined bank selection is not sticky: from any state without  *)
(* a fatal error, bank_control in 11..15 included, a register-1 write with *)
(* bit 7 clear and low nibble c in 0..10 succeeds, and the translation     *)
(* that follows succeeds under the pattern of c.                           *)
(***************************************************************************)
C18_BankSelectionRecovers ==
    [][/\ (~aborted /\ op'.kind = "write" /\ op'.addr = 1 /\ Bit(op'.val, 7) = 0
             /\ op'.val % 16 \in ValidBanks)
            => (~aborted' /\ s'.bank_control = op'.val % 16)
       /\ (~aborted /\ IsOp("write") /\ op.addr = 1 /\ op.val % 16 \in ValidBanks
             /\ op'.kind = "translate")
            => (~aborted' /\ op'.val = op.val % 16
                  /\ op'.mask = BankPattern[(op.val % 16) + 1])]_vars

C18_Witness ==
    /\ IsOp("translate") /\ ~aborted
    /\ last_w1 = 3 /\ op.val = 3 /\ op.mask = <<"0", "0", "0">>
    /\ op.addr = 16777215

(***************************************************************************)
(* C19: the bank windows nest and separate: the translated address sets of *)
(* banks 3, 4, 5, 6 are pairwise disjoint, those of banks 1, 2 and 10 are  *)
(* disjoint from every user bank's (3..9), the set of bank 7 is the union  *)
(* of those of 3 and 4, of bank 8 the union of 5 and 6, of bank 9 the      *)
(* union of 7 and 8; and translating a translated address again under the  *)
(* same bank returns it unchanged.  The returned addresses are             *)
(* indeterminate (see C1), so the statement is violated.                   *)
(***************************************************************************)
\* addresses with every value of bits 20..18, the other bits all clear or all set
WindowAddresses ==
    {base + mid * Pow2(18) : base \in {0, 16777215 - 7 * Pow2(18)}, mid \in 0..7}

\* the addresses translation under bank code c can return
TranslatedSet(c) ==
    UNION {xenium_translate_flash_address(a, c).returns : a \in WindowAddresses}

SmallUserBanks == {3, 4, 5, 6}
UserBanks == 3..9
SystemBanks == {1, 2, 10}

C19_BankWindows ==
    (IsOp("translate") /\ ~aborted) =>
        /\ \A c, d \in SmallUserBanks :
              c # d => TranslatedSet(c) \cap TranslatedSet(d) = {}
        /\ \A c \in SystemBanks, d \in UserBanks :
              TranslatedSet(c) \cap TranslatedSet(d) = {}
        /\ TranslatedSet(7) = TranslatedSet(3) \cup TranslatedSet(4)
        /\ TranslatedSet(8) = TranslatedSet(5) \cup TranslatedSet(6)
        /\ TranslatedSet(9) = TranslatedSet(7) \cup TranslatedSet(8)
        /\ xenium_translate_flash_address(op.ret, op.val).returns = {op.ret}

=============================================================================
